---- MODULE Spec2Model ----
(***************************************************************************)
(* The action layer of the screenshot editor (src/src/actions/index.ts)    *)
(* over the three tables of src/db/tables.ts.                              *)
(*                                                                         *)
(* A handler is a sequence of store round trips (each `await db...`).      *)
(* Every round trip is one atomic step of the store; between two round     *)
(* trips of one request any step of another request may happen.  A request *)
(* that still has a round trip to make is held in `inflight`.              *)
(***************************************************************************)
EXTENDS Integers, Sequences, FiniteSets, Bags, TLC

\* ------------------------------------------------------------------ bounds
\* rows the store holds, over its three tables
MaxRows == 3
\* the last reading of the clock
MaxClock == 1

\* -------------------------------------------------------------- JS values
\* A JavaScript value is a pair <<typeof, payload>>; undefined and null are
\* distinct values, as they are for zod and for `??`, `!==` and `if (x)`.
Undefined == <<"undefined">>
Null == <<"null">>
Str(s) == <<"string", s>>
Num(n) == <<"number", n>>
UserObj(id) == <<"object", id>>

IsString(v) == v[1] = "string"
IsNumber(v) == v[1] = "number"

\* if (v) ...
Truthy(v) == v \notin {Undefined, Null, Str(""), Num(0)}

\* v ?? null
OrNull(v) == IF v = Undefined \/ v = Null THEN Null ELSE v

\* .values({ col: v }) on an optional column: an undefined value stores NULL
Column(v) == IF v = Undefined THEN Null ELSE v

\* zod: z.string().optional(), z.number().optional(), z.string().min(1)
ZOptString(v) == v = Undefined \/ IsString(v)
ZOptNumber(v) == v = Undefined \/ IsNumber(v)
ZString1(v) == IsString(v) /\ v[2] # ""

\* ---------------------------------------------------------------- replies
Ok(data) == [success |-> TRUE, data |-> data]
ActionError(code, message) == [success |-> FALSE, code |-> code, message |-> message]
\* defineAction rejects an input that fails its schema before the handler runs
ValidationError == [success |-> FALSE, code |-> "BAD_REQUEST", message |-> "validation"]
RefineError ==
  [success |-> FALSE, code |-> "BAD_REQUEST",
   message |-> "At least one field must be provided to update."]
\* the store refused the statement; the handler does not catch it
StoreError == [success |-> FALSE, code |-> "INTERNAL_SERVER_ERROR", message |-> "store"]
\* the handler has not answered yet
Pending == [success |-> FALSE, code |-> "PENDING", message |-> ""]

\* ------------------------------------------------------------------ state
VARIABLES projects, screenshots, edits, clock, inflight

vars == <<projects, screenshots, edits, clock, inflight>>

\* crypto.randomUUID(): a string no row of any table carries yet
ProjectIds == <<"p1", "p2", "p3", "p4", "p5", "p6">>
ScreenshotIds == <<"s1", "s2", "s3", "s4", "s5", "s6">>
EditIds == <<"e1", "e2", "e3", "e4", "e5", "e6">>

Users == {"A", "B"}
\* the callers that can have a request under way at the same time
Sessions == {"c1", "c2"}
\* context.locals.user
LocalsUsers == {Undefined} \cup {UserObj(u) : u \in Users}

\* what one step of a handler does: its reply (Pending while the handler
\* goes on), the three tables after it and the request it leaves in flight
Out(reply, P, S, E, next) ==
  [reply |-> reply, projects |-> P, screenshots |-> S, edits |-> E, next |-> next]
\* the handler answers (or throws) and leaves the store as it is
Answer(reply) == Out(reply, projects, screenshots, edits, EmptyBag)
\* the handler awaits its next round trip
Continue(req) == Out(Pending, projects, screenshots, edits, SetToBag({req}))

\* ------------------------------------------------------------ requireUser
Unauthorized == ActionError("UNAUTHORIZED", "You must be signed in to perform this action.")
RequireUserOk(user) == Truthy(user)

\* -------------------------------------------------------- getOwnedProject
ProjectNotFound == ActionError("NOT_FOUND", "Project not found.")
SelectOwnedProject(projectId, userId) ==
  SelectSeq(projects, LAMBDA p : Str(p.id) = projectId /\ p.userId = userId)
\* a faulty getOwnedProject, whose lookup forgets the owner
GetOwnedProjectOkAnyOwner(projectId, userId) ==
  SelectSeq(projects, LAMBDA p : Str(p.id) = projectId) # <<>>
GetOwnedProjectOk(projectId, userId) == SelectOwnedProject(projectId, userId) # <<>>

\* ---------------------------------------------------------- createProject
CreateProjectSchema(input) ==
  /\ ZOptString(input.title)
  /\ ZOptString(input.description)
  /\ ZOptString(input.sourceDevice)
  /\ ZOptString(input.sourceApp)

\* a faulty insert, whose row takes the owner the input names
NewProjectOwnerFromInput(input, userId, now) ==
  [id |-> ProjectIds[Len(projects) + 1],
   userId |-> IF "userId" \in DOMAIN input THEN input.userId[2] ELSE userId,
   title |-> Column(input.title),
   description |-> Column(input.description),
   sourceDevice |-> Column(input.sourceDevice),
   sourceApp |-> Column(input.sourceApp),
   createdAt |-> now,
   updatedAt |-> now]

NewProject(input, userId, now) ==
  [id |-> ProjectIds[Len(projects) + 1],
   userId |-> userId,
   title |-> Column(input.title),
   description |-> Column(input.description),
   sourceDevice |-> Column(input.sourceDevice),
   sourceApp |-> Column(input.sourceApp),
   createdAt |-> now,
   updatedAt |-> now]

\* requireUser, `const now = new Date()`, and the insert is sent
CreateProjectBegin(user, input) ==
  IF ~CreateProjectSchema(input) THEN Answer(ValidationError)
  ELSE IF ~RequireUserOk(user) THEN Answer(Unauthorized)
  ELSE Continue([op |-> "createProject", pc |-> "issued", userId |-> user[2],
                 input |-> input, now |-> clock])

\* the insert reaches the store, with the timestamps the handler read
CreateProjectInsert(req) ==
  LET project == NewProject(req.input, req.userId, req.now)
  IN Out(Ok([project |-> project]), Append(projects, project), screenshots, edits, EmptyBag)

\* ---------------------------------------------------------- updateProject
\* a faulty schema, without the refinement
UpdateProjectNoRefine(input) == TRUE

UpdateProjectRefine(input) ==
  \/ input.title # Undefined
  \/ input.description # Undefined
  \/ input.sourceDevice # Undefined
  \/ input.sourceApp # Undefined

UpdateProjectSchema(input) ==
  /\ ZString1(input.id)
  /\ ZOptString(input.title)
  /\ ZOptString(input.description)
  /\ ZOptString(input.sourceDevice)
  /\ ZOptString(input.sourceApp)

\* requireUser, then the round trip of getOwnedProject
UpdateProjectCheck(user, input) ==
  IF ~UpdateProjectSchema(input) THEN Answer(ValidationError)
  ELSE IF ~UpdateProjectRefine(input) THEN Answer(RefineError)
  ELSE IF ~RequireUserOk(user) THEN Answer(Unauthorized)
  ELSE IF ~GetOwnedProjectOk(input.id, user[2]) THEN Answer(ProjectNotFound)
  ELSE Continue([op |-> "updateProject", pc |-> "checked", userId |-> user[2], input |-> input])

\* the handler resumes: it builds the update, reading the clock, and sends it
UpdateProjectIssue(req) ==
  Continue([op |-> "updateProject", pc |-> "issued", userId |-> req.userId,
            input |-> req.input, now |-> clock])

\* a faulty update, which replaces the whole row
UpdateProjectSetReplace(row, input, now) ==
  [row EXCEPT
     !.title = Column(input.title),
     !.description = Column(input.description),
     !.sourceDevice = Column(input.sourceDevice),
     !.sourceApp = Column(input.sourceApp),
     !.updatedAt = now]

\* .set({...}): only the fields the input has, and updatedAt
UpdateProjectSet(row, input, now) ==
  [row EXCEPT
     !.title = IF input.title # Undefined THEN input.title ELSE @,
     !.description = IF input.description # Undefined THEN input.description ELSE @,
     !.sourceDevice = IF input.sourceDevice # Undefined THEN input.sourceDevice ELSE @,
     !.sourceApp = IF input.sourceApp # Undefined THEN input.sourceApp ELSE @,
     !.updatedAt = now]

\* .where(eq(ScreenshotProjects.id, input.id))
UpdateProjectWhere(row, req) == Str(row.id) = req.input.id

\* the update reaches the store
UpdateProjectWrite(req) ==
  LET after == [i \in DOMAIN projects |->
                  IF UpdateProjectWhere(projects[i], req)
                  THEN UpdateProjectSet(projects[i], req.input, req.now)
                  ELSE projects[i]]
      hit == SelectSeq(after, LAMBDA p : UpdateProjectWhere(p, req))
  IN Out(Ok([project |-> IF hit = <<>> THEN Undefined ELSE hit[1]]), after, screenshots, edits, EmptyBag)

\* ----------------------------------------------------------- listProjects
ListProjectsHandler(user) ==
  IF ~RequireUserOk(user) THEN Answer(Unauthorized)
  ELSE LET items == SelectSeq(projects, LAMBDA p : p.userId = user[2])
       IN Answer(Ok([items |-> items, total |-> Len(items)]))

\* ----------------------------------------------------- getOwnedScreenshot
ScreenshotNotFound == ActionError("NOT_FOUND", "Screenshot not found.")
SelectOwnedScreenshot(screenshotId, userId) ==
  SelectSeq(screenshots, LAMBDA s : Str(s.id) = screenshotId /\ s.userId = userId)
\* a faulty getOwnedScreenshot, whose lookup forgets the owner
GetOwnedScreenshotOkAnyOwner(screenshotId, userId) ==
  SelectSeq(screenshots, LAMBDA s : Str(s.id) = screenshotId) # <<>>
GetOwnedScreenshotOk(screenshotId, userId) == SelectOwnedScreenshot(screenshotId, userId) # <<>>

\* ------------------------------------------------------- createScreenshot
CreateScreenshotSchema(input) ==
  /\ ZOptString(input.projectId)
  /\ ZString1(input.originalImageUrl)
  /\ ZOptString(input.editedImageUrl)
  /\ ZOptNumber(input.width)
  /\ ZOptNumber(input.height)

NewScreenshot(input, userId, now) ==
  [id |-> ScreenshotIds[Len(screenshots) + 1],
   projectId |-> OrNull(input.projectId),
   userId |-> userId,
   originalImageUrl |-> input.originalImageUrl[2],
   editedImageUrl |-> Column(input.editedImageUrl),
   width |-> Column(input.width),
   height |-> Column(input.height),
   createdAt |-> now,
   updatedAt |-> now]

\* Screenshots.projectId references ScreenshotProjects.id (tables.ts)
ProjectReferenceOk(projectId) ==
  projectId = Null \/ \E i \in DOMAIN projects : Str(projects[i].id) = projectId

\* `const now = new Date()`, and the insert is sent
CreateScreenshotIssue(userId, input) ==
  Continue([op |-> "createScreenshot", pc |-> "issued", userId |-> userId,
            input |-> input, now |-> clock])

\* requireUser, then getOwnedProject `if (input.projectId)`, else the
\* handler goes straight on to build the insert
CreateScreenshotBegin(user, input) ==
  IF ~CreateScreenshotSchema(input) THEN Answer(ValidationError)
  ELSE IF ~RequireUserOk(user) THEN Answer(Unauthorized)
  ELSE IF Truthy(input.projectId)
       THEN IF ~GetOwnedProjectOk(input.projectId, user[2]) THEN Answer(ProjectNotFound)
            ELSE Continue([op |-> "createScreenshot", pc |-> "checked",
                           userId |-> user[2], input |-> input])
       ELSE CreateScreenshotIssue(user[2], input)

\* The insert reaches the store, with the timestamps the handler read when
\* it built the statement.  Whether the store enforces the declared
\* reference is the store's configuration, not the handler's: `enforced` is
\* either.  (An update never meets the reference: its projectId has passed
\* getOwnedProject, and no project is ever deleted.)
CreateScreenshotInsert(req, enforced) ==
  LET screenshot == NewScreenshot(req.input, req.userId, req.now)
  IN IF enforced /\ ~ProjectReferenceOk(screenshot.projectId)
     THEN Answer(StoreError)
     ELSE Out(Ok([screenshot |-> screenshot]), projects, Append(screenshots, screenshot), edits, EmptyBag)

\* ------------------------------------------------------- updateScreenshot
UpdateScreenshotRefine(input) ==
  \/ input.projectId # Undefined
  \/ input.editedImageUrl # Undefined
  \/ input.width # Undefined
  \/ input.height # Undefined

UpdateScreenshotSchema(input) ==
  /\ ZString1(input.id)
  /\ ZOptString(input.projectId)
  /\ ZOptString(input.editedImageUrl)
  /\ ZOptNumber(input.width)
  /\ ZOptNumber(input.height)

\* requireUser, then the select of the caller's screenshot
UpdateScreenshotBegin(user, input) ==
  IF ~UpdateScreenshotSchema(input) THEN Answer(ValidationError)
  ELSE IF ~UpdateScreenshotRefine(input) THEN Answer(RefineError)
  ELSE IF ~RequireUserOk(user) THEN Answer(Unauthorized)
  ELSE IF ~GetOwnedScreenshotOk(input.id, user[2]) THEN Answer(ScreenshotNotFound)
  ELSE Continue([op |-> "updateScreenshot", pc |-> "existing",
                 userId |-> user[2], input |-> input])

\* if (input.projectId !== undefined && input.projectId !== null)
UpdateScreenshotNeedsProject(input) == input.projectId # Undefined /\ input.projectId # Null

\* the round trip of getOwnedProject for the new projectId
UpdateScreenshotCheckProject(req) ==
  IF ~GetOwnedProjectOk(req.input.projectId, req.userId) THEN Answer(ProjectNotFound)
  ELSE Continue([op |-> "updateScreenshot", pc |-> "checked",
                 userId |-> req.userId, input |-> req.input])

\* the handler resumes: it builds the update, reading the clock, and sends it
UpdateScreenshotIssue(req) ==
  Continue([op |-> "updateScreenshot", pc |-> "issued", userId |-> req.userId,
            input |-> req.input, now |-> clock])

UpdateScreenshotSet(row, input, now) ==
  [row EXCEPT
     !.projectId = IF input.projectId # Undefined THEN input.projectId ELSE @,
     !.editedImageUrl = IF input.editedImageUrl # Undefined THEN input.editedImageUrl ELSE @,
     !.width = IF input.width # Undefined THEN input.width ELSE @,
     !.height = IF input.height # Undefined THEN input.height ELSE @,
     !.updatedAt = now]

\* .where(eq(Screenshots.id, input.id))
UpdateScreenshotWhere(row, req) == Str(row.id) = req.input.id

UpdateScreenshotWrite(req) ==
  LET after == [i \in DOMAIN screenshots |->
                  IF UpdateScreenshotWhere(screenshots[i], req)
                  THEN UpdateScreenshotSet(screenshots[i], req.input, req.now)
                  ELSE screenshots[i]]
      hit == SelectSeq(after, LAMBDA s : UpdateScreenshotWhere(s, req))
  IN Out(Ok([screenshot |-> IF hit = <<>> THEN Undefined ELSE hit[1]]), projects, after, edits, EmptyBag)

\* -------------------------------------------------------- listScreenshots
ListScreenshotsSchema(input) == ZOptString(input.projectId)

\* and(...filters)
ListScreenshotsFilter(row, userId, input) ==
  /\ row.userId = userId
  /\ Truthy(input.projectId) => row.projectId = input.projectId

ListScreenshotsSelect(userId, input) ==
  LET items == SelectSeq(screenshots, LAMBDA s : ListScreenshotsFilter(s, userId, input))
  IN Answer(Ok([items |-> items, total |-> Len(items)]))

ListScreenshotsBegin(user, input) ==
  IF ~ListScreenshotsSchema(input) THEN Answer(ValidationError)
  ELSE IF ~RequireUserOk(user) THEN Answer(Unauthorized)
  ELSE IF Truthy(input.projectId)
       THEN IF ~GetOwnedProjectOk(input.projectId, user[2]) THEN Answer(ProjectNotFound)
            ELSE Continue([op |-> "listScreenshots", pc |-> "checked",
                           userId |-> user[2], input |-> input])
       ELSE ListScreenshotsSelect(user[2], input)

\* the handler resumes after getOwnedProject and sends the select
ListScreenshotsResume(req) == ListScreenshotsSelect(req.userId, req.input)

\* --------------------------------------------------- createScreenshotEdit
CreateScreenshotEditSchema(input) ==
  /\ ZString1(input.screenshotId)
  /\ ZOptString(input.editType)
  /\ ZOptString(input.operationsJson)
  /\ ZOptString(input.resultImageUrl)

NewScreenshotEdit(input, userId, now) ==
  [id |-> EditIds[Len(edits) + 1],
   screenshotId |-> input.screenshotId[2],
   userId |-> userId,
   editType |-> Column(input.editType),
   operationsJson |-> Column(input.operationsJson),
   resultImageUrl |-> Column(input.resultImageUrl),
   createdAt |-> now]

CreateScreenshotEditBegin(user, input) ==
  IF ~CreateScreenshotEditSchema(input) THEN Answer(ValidationError)
  ELSE IF ~RequireUserOk(user) THEN Answer(Unauthorized)
  ELSE IF ~GetOwnedScreenshotOk(input.screenshotId, user[2]) THEN Answer(ScreenshotNotFound)
  ELSE Continue([op |-> "createScreenshotEdit", pc |-> "checked",
                 userId |-> user[2], input |-> input])

\* the handler resumes: it builds the insert, `createdAt: new Date()`, and
\* sends it
CreateScreenshotEditIssue(req) ==
  Continue([op |-> "createScreenshotEdit", pc |-> "issued", userId |-> req.userId,
            input |-> req.input, now |-> clock])

\* the insert reaches the store
CreateScreenshotEditInsert(req) ==
  LET edit == NewScreenshotEdit(req.input, req.userId, req.now)
  IN Out(Ok([edit |-> edit]), projects, screenshots, Append(edits, edit), EmptyBag)

\* ---------------------------------------------------- listScreenshotEdits
ListScreenshotEditsSchema(input) == ZString1(input.screenshotId)

ListScreenshotEditsBegin(user, input) ==
  IF ~ListScreenshotEditsSchema(input) THEN Answer(ValidationError)
  ELSE IF ~RequireUserOk(user) THEN Answer(Unauthorized)
  ELSE IF ~GetOwnedScreenshotOk(input.screenshotId, user[2]) THEN Answer(ScreenshotNotFound)
  ELSE Continue([op |-> "listScreenshotEdits", pc |-> "checked",
                 userId |-> user[2], input |-> input])

\* a faulty select, which filters on the caller and not on the screenshot
ListScreenshotEditsSelectByUser(req) ==
  LET items == SelectSeq(edits, LAMBDA e : e.userId = req.userId)
  IN Answer(Ok([items |-> items, total |-> Len(items)]))

\* .where(eq(ScreenshotEdits.screenshotId, input.screenshotId))
ListScreenshotEditsSelect(req) ==
  LET items == SelectSeq(edits, LAMBDA e : Str(e.screenshotId) = req.input.screenshotId)
  IN Answer(Ok([items |-> items, total |-> Len(items)]))

\* ----------------------------------------------------------------- inputs
\* The inputs the callers send.  Ids: the id of every row of the table, an
\* id no row carries, and the empty string.
ProjectIdInputs ==
  {Str(projects[i].id) : i \in DOMAIN projects} \cup {Str("zz"), Str("")}
ScreenshotIdInputs ==
  {Str(screenshots[i].id) : i \in DOMAIN screenshots} \cup {Str("zz"), Str("")}

NoProjectFields ==
  [title |-> Undefined, description |-> Undefined, sourceDevice |-> Undefined,
   sourceApp |-> Undefined]
\* no field, a field that is no string, a key the schema does not know
CreateProjectInputs ==
  {NoProjectFields,
   [NoProjectFields EXCEPT !.title = Null],
   [title |-> Undefined, description |-> Undefined, sourceDevice |-> Undefined,
    sourceApp |-> Undefined, userId |-> Str("B")]}
UpdateProjectFields == {NoProjectFields, [NoProjectFields EXCEPT !.sourceApp = Str("Chrome")]}
UpdateProjectFieldsWide == UpdateProjectFields \cup {[NoProjectFields EXCEPT !.title = Str("Renamed")]}
UpdateProjectWith(fields) ==
  {[id |-> id, title |-> f.title, description |-> f.description,
    sourceDevice |-> f.sourceDevice, sourceApp |-> f.sourceApp] :
     id \in ProjectIdInputs, f \in fields}
UpdateProjectInputs == UpdateProjectWith(UpdateProjectFields)
UpdateProjectInputsWide == UpdateProjectWith(UpdateProjectFieldsWide)

CreateScreenshotInputs ==
  {[projectId |-> p, originalImageUrl |-> Str("img://1"), editedImageUrl |-> Undefined,
    width |-> Undefined, height |-> Undefined] : p \in ProjectIdInputs \cup {Undefined}}
  \cup {[projectId |-> Undefined, originalImageUrl |-> Str(""), editedImageUrl |-> Undefined,
          width |-> Undefined, height |-> Undefined]}
NoScreenshotFields ==
  [projectId |-> Undefined, editedImageUrl |-> Undefined, width |-> Undefined,
   height |-> Undefined]
UpdateScreenshotFields ==
  {NoScreenshotFields} \cup
  {[NoScreenshotFields EXCEPT !.projectId = p] : p \in ProjectIdInputs \cup {Null}}
UpdateScreenshotFieldsWide ==
  UpdateScreenshotFields \cup {[NoScreenshotFields EXCEPT !.width = Num(800)]}
UpdateScreenshotWith(fields) ==
  {[id |-> id, projectId |-> f.projectId, editedImageUrl |-> f.editedImageUrl,
    width |-> f.width, height |-> f.height] :
     id \in ScreenshotIdInputs, f \in fields}
UpdateScreenshotInputs == UpdateScreenshotWith(UpdateScreenshotFields)
UpdateScreenshotInputsWide == UpdateScreenshotWith(UpdateScreenshotFieldsWide)
ListScreenshotsInputs == {[projectId |-> p] : p \in ProjectIdInputs \cup {Undefined}}
CreateScreenshotEditInputs ==
  {[screenshotId |-> s, editType |-> Str("crop"), operationsJson |-> Undefined,
    resultImageUrl |-> Undefined] : s \in ScreenshotIdInputs}
ListScreenshotEditsInputs == {[screenshotId |-> s] : s \in ScreenshotIdInputs}

\* ---------------------------------------------------------------- actions
InFlight(op, pc) == {req \in BagToSet(inflight) : req.op = op /\ req.pc = pc}
Pendings(op) ==
  BagCardinality([req \in {q \in BagToSet(inflight) : q.op = op} |-> inflight[req]])

\* a handler step takes effect: `done` is the request that made it
Apply(out, done) ==
  /\ projects' = out.projects
  /\ screenshots' = out.screenshots
  /\ edits' = out.edits
  /\ inflight' = (inflight (-) done) (+) out.next
  /\ UNCHANGED clock

\* a caller is free to send a request
CanStart == BagCardinality(inflight) < Cardinality(Sessions)
\* the store has room for one more row, counting the inserts under way
Rows ==
  Len(projects) + Len(screenshots) + Len(edits)
    + Pendings("createProject") + Pendings("createScreenshot")
    + Pendings("createScreenshotEdit")
HasRoom == Rows < MaxRows

Init ==
  /\ projects = <<>>
  /\ screenshots = <<>>
  /\ edits = <<>>
  /\ clock = 0
  /\ inflight = EmptyBag

\* new Date() never goes back
Tick ==
  /\ clock < MaxClock
  /\ clock' = clock + 1
  /\ UNCHANGED <<projects, screenshots, edits, inflight>>

CreateProjectCall(users, inputs) ==
  /\ CanStart
  /\ HasRoom
  /\ \E user \in users, input \in inputs :
       Apply(CreateProjectBegin(user, input), EmptyBag)

CreateProjectLand ==
  \E req \in InFlight("createProject", "issued") :
     Apply(CreateProjectInsert(req), SetToBag({req}))

UpdateProjectCall(users, inputs) ==
  /\ CanStart
  /\ \E user \in users, input \in inputs :
       Apply(UpdateProjectCheck(user, input), EmptyBag)

UpdateProjectResume ==
  \E req \in InFlight("updateProject", "checked") :
     Apply(UpdateProjectIssue(req), SetToBag({req}))

UpdateProjectLand ==
  \E req \in InFlight("updateProject", "issued") :
     Apply(UpdateProjectWrite(req), SetToBag({req}))

ListProjects ==
  \E user \in LocalsUsers : Apply(ListProjectsHandler(user), EmptyBag)

CreateScreenshotCall(users, inputs) ==
  /\ CanStart
  /\ HasRoom
  /\ \E user \in users, input \in inputs :
       Apply(CreateScreenshotBegin(user, input), EmptyBag)

CreateScreenshotResume ==
  \E req \in InFlight("createScreenshot", "checked") :
     Apply(CreateScreenshotIssue(req.userId, req.input), SetToBag({req}))

CreateScreenshotLand ==
  \E req \in InFlight("createScreenshot", "issued"), enforced \in BOOLEAN :
     Apply(CreateScreenshotInsert(req, enforced), SetToBag({req}))

UpdateScreenshotCall(users, inputs) ==
  /\ CanStart
  /\ \E user \in users, input \in inputs :
       Apply(UpdateScreenshotBegin(user, input), EmptyBag)

UpdateScreenshotProject ==
  \E req \in InFlight("updateScreenshot", "existing") :
     /\ UpdateScreenshotNeedsProject(req.input)
     /\ Apply(UpdateScreenshotCheckProject(req), SetToBag({req}))

UpdateScreenshotResume ==
  \E req \in InFlight("updateScreenshot", "existing") \cup InFlight("updateScreenshot", "checked") :
     /\ req.pc = "existing" => ~UpdateScreenshotNeedsProject(req.input)
     /\ Apply(UpdateScreenshotIssue(req), SetToBag({req}))

UpdateScreenshotLand ==
  \E req \in InFlight("updateScreenshot", "issued") :
     Apply(UpdateScreenshotWrite(req), SetToBag({req}))

ListScreenshotsCall ==
  /\ CanStart
  /\ \E user \in LocalsUsers, input \in ListScreenshotsInputs :
       Apply(ListScreenshotsBegin(user, input), EmptyBag)

ListScreenshotsLand ==
  \E req \in InFlight("listScreenshots", "checked") :
     Apply(ListScreenshotsResume(req), SetToBag({req}))

CreateScreenshotEditCall(users) ==
  /\ CanStart
  /\ HasRoom
  /\ \E user \in users, input \in CreateScreenshotEditInputs :
       Apply(CreateScreenshotEditBegin(user, input), EmptyBag)

CreateScreenshotEditResume ==
  \E req \in InFlight("createScreenshotEdit", "checked") :
     Apply(CreateScreenshotEditIssue(req), SetToBag({req}))

CreateScreenshotEditLand ==
  \E req \in InFlight("createScreenshotEdit", "issued") :
     Apply(CreateScreenshotEditInsert(req), SetToBag({req}))

ListScreenshotEditsCall ==
  /\ CanStart
  /\ \E user \in LocalsUsers, input \in ListScreenshotEditsInputs :
       Apply(ListScreenshotEditsBegin(user, input), EmptyBag)

ListScreenshotEditsLand ==
  \E req \in InFlight("listScreenshotEdits", "checked") :
     Apply(ListScreenshotEditsSelect(req), SetToBag({req}))

\* Every action of every caller, two requests at a time, at one reading of
\* the clock.
Next ==
  \/ CreateProjectCall(LocalsUsers, CreateProjectInputs)
  \/ CreateProjectLand
  \/ UpdateProjectCall(LocalsUsers, UpdateProjectInputs)
  \/ UpdateProjectResume
  \/ UpdateProjectLand
  \/ ListProjects
  \/ CreateScreenshotCall(LocalsUsers, CreateScreenshotInputs)
  \/ CreateScreenshotResume
  \/ CreateScreenshotLand
  \/ UpdateScreenshotCall(LocalsUsers, UpdateScreenshotInputs)
  \/ UpdateScreenshotProject
  \/ UpdateScreenshotResume
  \/ UpdateScreenshotLand
  \/ ListScreenshotsCall
  \/ ListScreenshotsLand
  \/ CreateScreenshotEditCall(LocalsUsers)
  \/ CreateScreenshotEditResume
  \/ CreateScreenshotEditLand
  \/ ListScreenshotEditsCall
  \/ ListScreenshotEditsLand

Spec == Init /\ [][Next]_vars

\* One signed-in caller (and the anonymous one) with two requests at a time
OneCaller == {Undefined, UserObj("A")}

\* The actions that write projects and screenshots, with more of their
\* fields in the inputs.
NextFields ==
  \/ CreateProjectCall(OneCaller, CreateProjectInputs)
  \/ CreateProjectLand
  \/ UpdateProjectCall(OneCaller, UpdateProjectInputsWide)
  \/ UpdateProjectResume
  \/ UpdateProjectLand
  \/ CreateScreenshotCall(OneCaller, CreateScreenshotInputs)
  \/ CreateScreenshotResume
  \/ CreateScreenshotLand
  \/ UpdateScreenshotCall(OneCaller, UpdateScreenshotInputsWide)
  \/ UpdateScreenshotProject
  \/ UpdateScreenshotResume
  \/ UpdateScreenshotLand

SpecFields == Init /\ [][NextFields]_vars

\* The same actions, and the inserts of edits, while the clock advances.
NextClock ==
  \/ Tick
  \/ CreateProjectCall(OneCaller, CreateProjectInputs)
  \/ CreateProjectLand
  \/ UpdateProjectCall(OneCaller, UpdateProjectInputs)
  \/ UpdateProjectResume
  \/ UpdateProjectLand
  \/ CreateScreenshotCall(OneCaller, CreateScreenshotInputs)
  \/ CreateScreenshotResume
  \/ CreateScreenshotLand
  \/ UpdateScreenshotCall(OneCaller, UpdateScreenshotInputsWide)
  \/ UpdateScreenshotProject
  \/ UpdateScreenshotResume
  \/ UpdateScreenshotLand
  \/ CreateScreenshotEditCall(OneCaller)
  \/ CreateScreenshotEditResume
  \/ CreateScreenshotEditLand

SpecClock == Init /\ [][NextClock]_vars

\* ----------------------------------------------------------------- claims
ItemsOf(out) == out.reply.data.items
OwnedBy(items, userId) == \A i \in DOMAIN items : items[i].userId = userId
\* no row of any table carries the id
ExistsNowhere(id) ==
  /\ \A i \in DOMAIN projects : Str(projects[i].id) # id
  /\ \A i \in DOMAIN screenshots : Str(screenshots[i].id) # id
  /\ \A i \in DOMAIN edits : Str(edits[i].id) # id
ForeignProject(id, userId) ==
  \E i \in DOMAIN projects : Str(projects[i].id) = id /\ projects[i].userId # userId
ForeignScreenshot(id, userId) ==
  \E i \in DOMAIN screenshots : Str(screenshots[i].id) = id /\ screenshots[i].userId # userId
\* the handler threw NOT_FOUND and neither wrote nor went on
Refused(out, reply) ==
  /\ out.reply = reply
  /\ out.projects = projects
  /\ out.screenshots = screenshots
  /\ out.edits = edits
  /\ out.next = EmptyBag

\* C1: whatever a caller lists (projects, screenshots with or without a
\* projectId, the edits of a screenshot), every item returned carries the
\* caller's id as userId, whichever ids the caller supplies.
C1_ListsReturnOnlyOwnRows ==
  \A u \in Users :
    /\ OwnedBy(ItemsOf(ListProjectsHandler(UserObj(u))), u)
    /\ \A input \in ListScreenshotsInputs :
         LET out == ListScreenshotsBegin(UserObj(u), input)
         IN /\ out.reply.success => OwnedBy(ItemsOf(out), u)
            /\ \A req \in BagToSet(out.next) : req.userId = u
    /\ \A input \in ListScreenshotEditsInputs :
         \A req \in BagToSet(ListScreenshotEditsBegin(UserObj(u), input).next) : req.userId = u
    /\ \A req \in InFlight("listScreenshots", "checked") :
         req.userId = u => OwnedBy(ItemsOf(ListScreenshotsResume(req)), u)
    /\ \A req \in InFlight("listScreenshotEdits", "checked") :
         req.userId = u => OwnedBy(ItemsOf(ListScreenshotEditsSelect(req)), u)

\* a caller is about to receive the edits of a screenshot while another
\* user owns rows too
C1_Witness ==
  \E req \in InFlight("listScreenshotEdits", "checked") :
    /\ ItemsOf(ListScreenshotEditsSelect(req)) # <<>>
    /\ \E i \in DOMAIN screenshots : screenshots[i].userId # req.userId

\* C2: every screenshot whose projectId is not null references an existing
\* project of the screenshot's owner.
C2_ProjectIdReferencesOwnedProject ==
  \A i \in DOMAIN screenshots :
    screenshots[i].projectId # Null =>
      \E j \in DOMAIN projects :
        /\ Str(projects[j].id) = screenshots[i].projectId
        /\ projects[j].userId = screenshots[i].userId

\* C3: a step changes a project or a screenshot only when it is the write of
\* an update sent by the row's owner.
C3_OnlyOwnerMutates ==
  [][/\ \A i \in DOMAIN projects :
          projects'[i] # projects[i] =>
            \E req \in InFlight("updateProject", "issued") :
              /\ req.userId = projects[i].userId
              /\ inflight' = inflight (-) SetToBag({req})
     /\ \A i \in DOMAIN screenshots :
          screenshots'[i] # screenshots[i] =>
            \E req \in InFlight("updateScreenshot", "issued") :
              /\ req.userId = screenshots[i].userId
              /\ inflight' = inflight (-) SetToBag({req})]_vars

\* two users own projects, one project was updated, and its owner's
\* lookup of the other user's project finds nothing
C3_Witness ==
  \E i, j \in DOMAIN projects :
    /\ projects[i].userId # projects[j].userId
    /\ projects[i].sourceApp = Str("Chrome")
    /\ projects[j].sourceApp = Null
    /\ ~GetOwnedProjectOk(Str(projects[j].id), projects[i].userId)

\* C4: a row inserted by createProject, createScreenshot or
\* createScreenshotEdit carries the caller's id as userId whatever the input
\* holds, and no step changes the userId of a row.
C4_OwnerIsCallerForever ==
  /\ [](\A u \in Users :
          /\ \A input \in CreateProjectInputs :
               \A req \in BagToSet(CreateProjectBegin(UserObj(u), input).next) :
                  req.userId = u
          /\ \A input \in CreateScreenshotInputs :
               \A req \in BagToSet(CreateScreenshotBegin(UserObj(u), input).next) :
                  req.userId = u
          /\ \A input \in CreateScreenshotEditInputs :
               \A req \in BagToSet(CreateScreenshotEditBegin(UserObj(u), input).next) :
                  req.userId = u
          /\ \A req \in InFlight("createScreenshot", "checked") :
               \A nxt \in BagToSet(CreateScreenshotIssue(req.userId, req.input).next) :
                  nxt.userId = req.userId
          /\ \A req \in InFlight("createScreenshotEdit", "checked") :
               \A nxt \in BagToSet(CreateScreenshotEditIssue(req).next) :
                  nxt.userId = req.userId
          /\ \A req \in InFlight("createProject", "issued") :
               LET out == CreateProjectInsert(req)
               IN req.userId = u =>
                    /\ out.reply.data.project.userId = u
                    /\ out.projects = Append(projects, out.reply.data.project)
          /\ \A req \in InFlight("createScreenshot", "issued"), enforced \in BOOLEAN :
               LET out == CreateScreenshotInsert(req, enforced)
               IN (req.userId = u /\ out.reply.success) =>
                    /\ out.reply.data.screenshot.userId = u
                    /\ out.screenshots = Append(screenshots, out.reply.data.screenshot)
          /\ \A req \in InFlight("createScreenshotEdit", "issued") :
               LET out == CreateScreenshotEditInsert(req)
               IN req.userId = u =>
                    /\ out.reply.data.edit.userId = u
                    /\ out.edits = Append(edits, out.reply.data.edit))
  /\ [][/\ \A i \in DOMAIN projects : projects'[i].userId = projects[i].userId
        /\ \A i \in DOMAIN screenshots : screenshots'[i].userId = screenshots[i].userId
        /\ \A i \in DOMAIN edits : edits'[i].userId = edits[i].userId]_vars

\* the three tables hold rows, of two owners, and a project was updated since
C4_Witness ==
  /\ edits # <<>>
  /\ \E i \in DOMAIN projects, j \in DOMAIN screenshots :
       /\ projects[i].userId # screenshots[j].userId
       /\ projects[i].sourceApp = Str("Chrome")

\* C5: a call whose id names a row of another user is refused exactly as the
\* same call with an id that no row carries: NOT_FOUND, the same message, the
\* store as it was.
C5_ForeignIdAsAbsentId ==
  \A u \in Users :
    /\ \A i1, i2 \in CreateScreenshotInputs :
         (/\ CreateScreenshotSchema(i1) /\ CreateScreenshotSchema(i2)
          /\ i1.projectId # Undefined /\ i2.projectId # Undefined
          /\ ForeignProject(i1.projectId, u) /\ ExistsNowhere(i2.projectId)) =>
           /\ Refused(CreateScreenshotBegin(UserObj(u), i1), ProjectNotFound)
           /\ Refused(CreateScreenshotBegin(UserObj(u), i2), ProjectNotFound)
    /\ \A i1, i2 \in ListScreenshotsInputs :
         (/\ i1.projectId # Undefined /\ i2.projectId # Undefined
          /\ ForeignProject(i1.projectId, u) /\ ExistsNowhere(i2.projectId)) =>
           /\ Refused(ListScreenshotsBegin(UserObj(u), i1), ProjectNotFound)
           /\ Refused(ListScreenshotsBegin(UserObj(u), i2), ProjectNotFound)
    /\ \A i1, i2 \in UpdateProjectInputs :
         (/\ UpdateProjectSchema(i1) /\ UpdateProjectSchema(i2)
          /\ UpdateProjectRefine(i1) /\ UpdateProjectRefine(i2)
          /\ ForeignProject(i1.id, u) /\ ExistsNowhere(i2.id)) =>
           /\ Refused(UpdateProjectCheck(UserObj(u), i1), ProjectNotFound)
           /\ Refused(UpdateProjectCheck(UserObj(u), i2), ProjectNotFound)
    /\ \A i1, i2 \in UpdateScreenshotInputs :
         (/\ UpdateScreenshotSchema(i1) /\ UpdateScreenshotSchema(i2)
          /\ UpdateScreenshotRefine(i1) /\ UpdateScreenshotRefine(i2)
          /\ ForeignScreenshot(i1.id, u) /\ ExistsNowhere(i2.id)) =>
           /\ Refused(UpdateScreenshotBegin(UserObj(u), i1), ScreenshotNotFound)
           /\ Refused(UpdateScreenshotBegin(UserObj(u), i2), ScreenshotNotFound)
    /\ \A i1, i2 \in CreateScreenshotEditInputs :
         (/\ CreateScreenshotEditSchema(i1) /\ CreateScreenshotEditSchema(i2)
          /\ ForeignScreenshot(i1.screenshotId, u) /\ ExistsNowhere(i2.screenshotId)) =>
           /\ Refused(CreateScreenshotEditBegin(UserObj(u), i1), ScreenshotNotFound)
           /\ Refused(CreateScreenshotEditBegin(UserObj(u), i2), ScreenshotNotFound)
    /\ \A i1, i2 \in ListScreenshotEditsInputs :
         (/\ ListScreenshotEditsSchema(i1) /\ ListScreenshotEditsSchema(i2)
          /\ ForeignScreenshot(i1.screenshotId, u) /\ ExistsNowhere(i2.screenshotId)) =>
           /\ Refused(ListScreenshotEditsBegin(UserObj(u), i1), ScreenshotNotFound)
           /\ Refused(ListScreenshotEditsBegin(UserObj(u), i2), ScreenshotNotFound)
    /\ \A req \in InFlight("updateScreenshot", "existing") :
         (/\ req.userId = u /\ UpdateScreenshotNeedsProject(req.input)
          /\ (ForeignProject(req.input.projectId, u) \/ ExistsNowhere(req.input.projectId))) =>
           Refused(UpdateScreenshotCheckProject(req), ProjectNotFound)

\* C6: an update that names none of its fields is rejected by the input
\* schema, for every caller (signed in or not) and every id (of a row of the
\* caller, of another user, of no row): nothing is written and no round trip
\* is left to make.
C6_EmptyUpdateRejectedBeforeStore ==
  \A user \in LocalsUsers :
    /\ \A id \in ProjectIdInputs :
         LET out == UpdateProjectCheck(user,
                      [id |-> id, title |-> Undefined, description |-> Undefined,
                       sourceDevice |-> Undefined, sourceApp |-> Undefined])
         IN /\ out.reply.code = "BAD_REQUEST"
            /\ out.projects = projects /\ out.screenshots = screenshots /\ out.edits = edits
            /\ out.next = EmptyBag
    /\ \A id \in ScreenshotIdInputs :
         LET out == UpdateScreenshotBegin(user,
                      [id |-> id, projectId |-> Undefined, editedImageUrl |-> Undefined,
                       width |-> Undefined, height |-> Undefined])
         IN /\ out.reply.code = "BAD_REQUEST"
            /\ out.projects = projects /\ out.screenshots = screenshots /\ out.edits = edits
            /\ out.next = EmptyBag

\* a project and a screenshot exist that their owner could update, and the
\* owner's update with no field is answered by the refinement's message
C6_Witness ==
  /\ \E i \in DOMAIN projects :
       /\ GetOwnedProjectOk(Str(projects[i].id), projects[i].userId)
       /\ UpdateProjectCheck(UserObj(projects[i].userId),
            [id |-> Str(projects[i].id), title |-> Undefined, description |-> Undefined,
             sourceDevice |-> Undefined, sourceApp |-> Undefined]).reply = RefineError
  /\ \E i \in DOMAIN screenshots :
       /\ GetOwnedScreenshotOk(Str(screenshots[i].id), screenshots[i].userId)
       /\ UpdateScreenshotBegin(UserObj(screenshots[i].userId),
            [id |-> Str(screenshots[i].id), projectId |-> Undefined,
             editedImageUrl |-> Undefined, width |-> Undefined,
             height |-> Undefined]).reply = RefineError

\* C7: no step lowers the updatedAt of a project or of a screenshot.
C7_UpdatedAtNeverDecreases ==
  [][/\ \A i \in DOMAIN projects : projects'[i].updatedAt >= projects[i].updatedAt
     /\ \A i \in DOMAIN screenshots :
          screenshots'[i].updatedAt >= screenshots[i].updatedAt]_vars

\* the columns an update can set
ProjectColumns == {"title", "description", "sourceDevice", "sourceApp"}
ScreenshotColumns == {"projectId", "editedImageUrl", "width", "height"}

\* C8: the write of an update gives the row it names the input's value in
\* every field the input has, and leaves every other field of the row but
\* updatedAt, every other row and the other tables as they were.
C8_UpdateChangesOnlyGivenFields ==
  [][/\ \A req \in InFlight("updateProject", "issued") :
          inflight' = inflight (-) SetToBag({req}) =>
            /\ screenshots' = screenshots
            /\ edits' = edits
            /\ Len(projects') = Len(projects)
            /\ \A i \in DOMAIN projects :
                 IF Str(projects[i].id) = req.input.id
                 THEN /\ \A c \in ProjectColumns :
                           projects'[i][c] =
                             IF req.input[c] # Undefined THEN req.input[c] ELSE projects[i][c]
                      /\ projects'[i].id = projects[i].id
                      /\ projects'[i].userId = projects[i].userId
                      /\ projects'[i].createdAt = projects[i].createdAt
                 ELSE projects'[i] = projects[i]
     /\ \A req \in InFlight("updateScreenshot", "issued") :
          inflight' = inflight (-) SetToBag({req}) =>
            /\ projects' = projects
            /\ edits' = edits
            /\ Len(screenshots') = Len(screenshots)
            /\ \A i \in DOMAIN screenshots :
                 IF Str(screenshots[i].id) = req.input.id
                 THEN /\ \A c \in ScreenshotColumns :
                           screenshots'[i][c] =
                             IF req.input[c] # Undefined THEN req.input[c]
                             ELSE screenshots[i][c]
                      /\ screenshots'[i].id = screenshots[i].id
                      /\ screenshots'[i].userId = screenshots[i].userId
                      /\ screenshots'[i].originalImageUrl = screenshots[i].originalImageUrl
                      /\ screenshots'[i].createdAt = screenshots[i].createdAt
                 ELSE screenshots'[i] = screenshots[i]]_vars

\* two updates of one project were under way together, each with a field of
\* its own: one has written, the other is about to, and another row exists
C8_Witness ==
  \E req \in InFlight("updateProject", "issued"), i \in DOMAIN projects :
    /\ Str(projects[i].id) = req.input.id
    /\ req.input.title = Str("Renamed")
    /\ req.input.sourceApp = Undefined
    /\ projects[i].sourceApp = Str("Chrome")
    /\ projects[i].title = Null
    /\ Len(projects) + Len(screenshots) > 1

\* the caller's screenshots of a project
ScreenshotsOf(userId, projectId) ==
  SelectSeq(screenshots, LAMBDA s : s.userId = userId /\ s.projectId = projectId)

\* C9: listScreenshots with a projectId either fails with NOT_FOUND, when
\* the caller owns no project of that id, or returns exactly the caller's
\* screenshots of that project, with total their number.
C9_ListScreenshotsOfProject ==
  \A u \in Users :
    /\ \A input \in ListScreenshotsInputs :
         (ListScreenshotsSchema(input) /\ input.projectId # Undefined) =>
           LET out == ListScreenshotsBegin(UserObj(u), input)
               owned == \E i \in DOMAIN projects :
                          Str(projects[i].id) = input.projectId /\ projects[i].userId = u
           IN \/ ~owned /\ out.reply = ProjectNotFound
              \/ owned /\ out.reply = Pending
              \/ /\ out.reply.success
                 /\ ItemsOf(out) = ScreenshotsOf(u, input.projectId)
                 /\ out.reply.data.total = Len(ItemsOf(out))
    /\ \A req \in InFlight("listScreenshots", "checked") :
         req.userId = u =>
           LET out == ListScreenshotsResume(req)
           IN /\ ItemsOf(out) = ScreenshotsOf(u, req.input.projectId)
              /\ out.reply.data.total = Len(ItemsOf(out))

\* C10: no step removes or changes a row of ScreenshotEdits, and
\* listScreenshotEdits returns the rows of the screenshot it names, all of
\* them and no other, with total their number.
C10_EditsAppendOnly ==
  /\ [][/\ Len(edits') >= Len(edits)
        /\ \A i \in DOMAIN edits : edits'[i] = edits[i]]_vars
  /\ [](\A req \in InFlight("listScreenshotEdits", "checked") :
          LET data == ListScreenshotEditsSelect(req).reply.data
          IN /\ data.items = SelectSeq(edits, LAMBDA e : e.screenshotId = req.input.screenshotId[2])
             /\ data.total = Len(data.items))

\* an edit was inserted, a project was updated, and a caller is about to
\* receive the edit from listScreenshotEdits
C10_Witness ==
  /\ edits # <<>>
  /\ \E i \in DOMAIN projects : projects[i].sourceApp = Str("Chrome")
  /\ \E req \in InFlight("listScreenshotEdits", "checked") :
       ListScreenshotEditsSelect(req).reply.data.total = 1

====
